---- MODULE Spec2Model ----
(***************************************************************************)
(* Model of tasks_tui.task_service.TaskService: a local cache of Google    *)
(* Tasks lists and tasks (self.data), its cache-only CRUD methods and the  *)
(* push reconciliation sync_to_google, together with the durable document  *)
(* of tasks_tui.local_storage and the remote service the methods call.     *)
(***************************************************************************)
EXTENDS Integers, Sequences, FiniteSets, TLC

VARIABLES
    data,            \* self.data: [task_lists, tasks]
    dirty,           \* self.dirty
    active_list_id,  \* self.active_list_id
    disk,            \* content of STORAGE_FILE
    remote,          \* state behind self.service: [lists, tasks, next]
    now,             \* int(time.time())
    lastOp,          \* name of the method called last
    ret,             \* what that call returned ("raised" for an exception)
    log,             \* remote calls issued by that call, in order
    steps            \* number of method calls so far

vars == <<data, dirty, active_list_id, disk, remote, now, lastOp, ret, log, steps>>

(* ---------------------------- bounds ----------------------------------- *)
MaxSteps == 4      \* method calls in one behaviour
MaxClock == 2      \* last second the clock reaches
MaxFail  == 1      \* remote calls the service fails in one sync

(* ---------------------------- inputs ----------------------------------- *)
Titles   == {"a", "b"}     \* titles a rename gives
NewTitles == {"a"}         \* titles a new list or task gets
Details  == {"n"}
DateStrs == {"2024-01-01", "not-a-date"}
Absent   == "<absent>"     \* a key the dict does not have (dict.get gives None)

(* ------------------------- identifiers --------------------------------- *)
\* An identifier string is its reserved prefix and the number after it.
NoneId == [pre |-> "None", n |-> 0]
TempListId(t) == [pre |-> "temp_list_", n |-> t]
TempTaskId(t) == [pre |-> "temp_", n |-> t]
RemoteId(k)   == [pre |-> "", n |-> k]

\* a prefix test that no identifier passes
StartsWithTempList_Never(id) == FALSE
\* str.startswith('temp_list_')
StartsWithTempList(id) == id.pre = "temp_list_"
\* str.startswith('temp_'): 'temp_list_N' starts with 'temp_' too
StartsWithTemp(id) == id.pre \in {"temp_", "temp_list_"}

(* --------------------- ordered dict (insertion order) ------------------ *)
Keys(d) == {d[i].key : i \in 1..Len(d)}
HasKey(d, k) == k \in Keys(d)
IndexOf(d, k) == CHOOSE i \in 1..Len(d) : d[i].key = k
\* d.get(k, [])
GetOr(d, k) == IF HasKey(d, k) THEN d[IndexOf(d, k)].val ELSE <<>>
\* d[k] = v : in place when the key exists, appended otherwise
SetItem(d, k, v) ==
    IF HasKey(d, k) THEN [d EXCEPT ![IndexOf(d, k)].val = v]
    ELSE Append(d, [key |-> k, val |-> v])
\* d.pop(k) : the dict without the key
Pop(d, k) == SelectSeq(d, LAMBDA e : e.key # k)

(* ------------------------------ records -------------------------------- *)
ListRec(id, title) == [id |-> id, title |-> title, deleted |-> FALSE]
TaskRec(id, title, status, due, notes) ==
    [id |-> id, title |-> title, status |-> status, due |-> due, notes |-> notes,
     deleted |-> FALSE]

\* index of the first task of the sequence with this id, 0 when there is none
FirstIndex(ts, task_id) ==
    IF \E i \in 1..Len(ts) : ts[i].id = task_id
    THEN CHOOSE i \in 1..Len(ts) :
            ts[i].id = task_id /\ \A j \in 1..(i-1) : ts[j].id # task_id
    ELSE 0

(* ------------------------- remote service ------------------------------ *)
\* remote.lists : sequence of [id, title]; remote.tasks : sequence of
\* [list, id, title, status, due, notes]; remote.next : next identifier.
RemoteHasList(r, list_id) == \E i \in 1..Len(r.lists) : r.lists[i].id = list_id
RemoteHasTask(r, list_id, task_id) ==
    \E i \in 1..Len(r.tasks) : r.tasks[i].list = list_id /\ r.tasks[i].id = task_id
RemoteTask(r, list_id, task_id) ==
    r.tasks[CHOOSE i \in 1..Len(r.tasks) :
                r.tasks[i].list = list_id /\ r.tasks[i].id = task_id]

\* tasklists().list().execute().get('items', [])
RemoteListLists(r) ==
    [i \in 1..Len(r.lists) |-> ListRec(r.lists[i].id, r.lists[i].title)]
\* tasks().list(tasklist=list_id).execute().get('items', [])
RemoteListTasks(r, list_id) ==
    LET ts == SelectSeq(r.tasks, LAMBDA t : t.list = list_id) IN
    [i \in 1..Len(ts) |->
        TaskRec(ts[i].id, ts[i].title, ts[i].status, ts[i].due, ts[i].notes)]

\* tasklists().insert(body={'title': title})
RemoteInsertList(r, title) ==
    [remote |-> [r EXCEPT !.lists = Append(@, [id |-> RemoteId(r.next), title |-> title]),
                          !.next = @ + 1],
     result |-> ListRec(RemoteId(r.next), title)]
\* tasklists().delete(tasklist=list_id)
RemoteDeleteList(r, list_id) ==
    [r EXCEPT !.lists = SelectSeq(@, LAMBDA l : l.id # list_id),
              !.tasks = SelectSeq(@, LAMBDA t : t.list # list_id)]
\* tasks().insert(tasklist=list_id, body={title[, due][, notes]})
RemoteInsertTask(r, list_id, title, due, notes) ==
    [remote |-> [r EXCEPT !.tasks = Append(@, [list |-> list_id, id |-> RemoteId(r.next),
                                               title |-> title, status |-> "needsAction",
                                               due |-> due, notes |-> notes]),
                          !.next = @ + 1],
     result |-> TaskRec(RemoteId(r.next), title, "needsAction", due, notes)]
\* tasks().delete(tasklist=list_id, task=task_id)
RemoteDeleteTask(r, list_id, task_id) ==
    [r EXCEPT !.tasks = SelectSeq(@, LAMBDA t : ~(t.list = list_id /\ t.id = task_id))]
\* tasks().update(tasklist=list_id, task=task_id, body=task)
RemoteUpdateTask(r, list_id, task) ==
    [remote |-> [r EXCEPT !.tasks =
                    [i \in 1..Len(@) |->
                        IF @[i].list = list_id /\ @[i].id = task.id
                        THEN [@[i] EXCEPT !.title = task.title,
                                          !.status = task.status,
                                          !.due = task.due,
                                          !.notes = task.notes]
                        ELSE @[i]]],
     result |-> TaskRec(task.id, task.title, task.status, task.due, task.notes)]

(* --------------------------- local storage ----------------------------- *)
\* local_storage.load_data() on a first start: STORAGE_FILE is missing
load_data == [task_lists |-> <<>>, tasks |-> <<>>]

\* local_storage.save_data(data): json.dump of the data into STORAGE_FILE
\* (the file is taken to be writable)
save_data(d) == d

\* TaskService.sync_from_google: the data pulled from the service
sync_from_google(r) ==
    [task_lists |-> RemoteListLists(r),
     tasks |-> [i \in 1..Len(r.lists) |->
                  [key |-> r.lists[i].id, val |-> RemoteListTasks(r, r.lists[i].id)]]]

\* TaskService._get_default_task_list_id
_get_default_task_list_id(d) ==
    IF d.task_lists # <<>> THEN d.task_lists[1].id ELSE NoneId

(* ----------------------------- initial state --------------------------- *)
\* The account the service holds at first start: one list with one task.
InitRemote ==
    [lists |-> <<[id |-> RemoteId(1), title |-> "a"]>>,
     tasks |-> <<[list |-> RemoteId(1), id |-> RemoteId(2), title |-> "a",
                  status |-> "needsAction", due |-> Absent, notes |-> Absent]>>,
     next  |-> 3]

\* self.data after __init__: what load_data() gave, or, when that has no
\* task lists, what sync_from_google() pulled (and saved)
InitData ==
    IF load_data.task_lists = <<>> THEN sync_from_google(InitRemote) ELSE load_data

\* TaskService.__init__
Init ==
    /\ remote = InitRemote
    /\ data = InitData
    /\ disk = save_data(InitData)
    /\ dirty = FALSE
    /\ active_list_id = _get_default_task_list_id(InitData)
    /\ now = 1
    /\ lastOp = "__init__"
    /\ ret = "None"
    /\ log = <<>>
    /\ steps = 0

(* ------------------------- arguments of the calls ---------------------- *)
ListIds(d) == {d.task_lists[i].id : i \in 1..Len(d.task_lists)}
TaskIds(d) == UNION {{d.tasks[b].val[i].id : i \in 1..Len(d.tasks[b].val)} :
                        b \in 1..Len(d.tasks)}
\* list ids a caller holds: those of the lists, and the active list (which
\* may be None, or the id a list had before a sync)
ListArgs == ListIds(data) \cup {active_list_id}
\* task ids a caller holds: those of the tasks of any list
TaskArgs == TaskIds(data)
\* what int(time.time()) can read at a call: the clock does not go back, and
\* at most one second passes between two calls
ClockReads == {t \in {now, now + 1} : t <= MaxClock}

\* bookkeeping common to every cache-only method call
Called(op, r) ==
    /\ steps < MaxSteps
    /\ steps' = steps + 1
    /\ lastOp' = op
    /\ ret' = r
    /\ log' = <<>>
    /\ UNCHANGED <<disk, remote, active_list_id>>

\* the tasks of a bucket, as a set
BucketTasks(list_id) ==
    {GetOr(data.tasks, list_id)[i] : i \in 1..Len(GetOr(data.tasks, list_id))}

\* the tasks mapping with task i of the bucket replaced
SetTask(d, list_id, i, task) ==
    [d EXCEPT !.tasks = SetItem(@, list_id, [GetOr(@, list_id) EXCEPT ![i] = task])]

\* "for task in bucket: if task['id'] == task_id: <change>; dirty = True;
\* return task" followed by "return None", shared by the task mutators;
\* change[t] is the task t after the change
EditTask(op, list_id, task_id, change, found, missing) ==
    LET i == FirstIndex(GetOr(data.tasks, list_id), task_id) IN
    /\ UNCHANGED now
    /\ IF list_id = NoneId
       THEN Called(op, "None") /\ UNCHANGED <<data, dirty>>
       ELSE IF i = 0
       THEN Called(op, missing) /\ UNCHANGED <<data, dirty>>
       ELSE /\ Called(op, found)
            /\ data' = SetTask(data, list_id, i, change[GetOr(data.tasks, list_id)[i]])
            /\ dirty' = TRUE

(* ------------------------- cache-only methods -------------------------- *)
add_task ==
    \E list_id \in ListArgs, title \in NewTitles, t \in ClockReads :
        IF list_id = NoneId
        THEN Called("add_task", "None") /\ UNCHANGED <<data, dirty, now>>
        ELSE /\ Called("add_task", "task")
             /\ now' = t
             /\ data' = [data EXCEPT !.tasks =
                    SetItem(@, list_id,
                            Append(GetOr(@, list_id),
                                   TaskRec(TempTaskId(t), title, "needsAction",
                                           Absent, Absent)))]
             /\ dirty' = TRUE

\* a toggle that only ever completes
toggled_OneWay(status) == "completed"

\* 'completed' if task.get('status') == 'needsAction' else 'needsAction'
toggled(status) == IF status = "needsAction" THEN "completed" ELSE "needsAction"

toggle_task_status ==
    \E list_id \in ListArgs, task_id \in TaskArgs :
        EditTask("toggle_task_status", list_id, task_id,
                 [t \in BucketTasks(list_id) |-> [t EXCEPT !.status = toggled(@)]],
                 "task", "None")

delete_task ==
    \E list_id \in ListArgs, task_id \in TaskArgs :
        EditTask("delete_task", list_id, task_id,
                 [t \in BucketTasks(list_id) |-> [t EXCEPT !.deleted = TRUE]],
                 "True", "False")

rename_task ==
    \E list_id \in ListArgs, task_id \in TaskArgs, new_name \in Titles :
        EditTask("rename_task", list_id, task_id,
                 [t \in BucketTasks(list_id) |-> [t EXCEPT !.title = new_name]],
                 "task", "None")

\* dateutil's isoparse followed by datetime.isoformat(): a date without a time
\* reads as midnight; anything else here is no ISO-8601 string (ValueError)
isoparse(date_str) ==
    IF date_str = "2024-01-01"
    THEN [ok |-> TRUE, isoformat |-> "2024-01-01T00:00:00"]
    ELSE [ok |-> FALSE, isoformat |-> Absent]

\* The except clause names isoparse.ParserError; isoparse is a function and
\* has no such attribute, so handling the ValueError raises AttributeError.
change_date_task ==
    \E list_id \in ListArgs, task_id \in TaskArgs, date_str \in DateStrs :
        IF list_id # NoneId /\ ~isoparse(date_str).ok
        THEN Called("change_date_task", "raised") /\ UNCHANGED <<data, dirty, now>>
        ELSE EditTask("change_date_task", list_id, task_id,
                      [t \in BucketTasks(list_id) |->
                         [t EXCEPT !.due = isoparse(date_str).isoformat \o "Z"]],
                      "task", "None")

change_detail_task ==
    \E list_id \in ListArgs, task_id \in TaskArgs, detail \in Details :
        EditTask("change_detail_task", list_id, task_id,
                 [t \in BucketTasks(list_id) |-> [t EXCEPT !.notes = detail]],
                 "task", "None")

set_active_list ==
    \E list_id \in ListIds(data) \cup {NoneId} :
        /\ steps < MaxSteps
        /\ steps' = steps + 1
        /\ lastOp' = "set_active_list"
        /\ ret' = "True"
        /\ log' = <<>>
        /\ active_list_id' = list_id
        /\ UNCHANGED <<data, dirty, disk, remote, now>>

add_list ==
    \E list_name \in NewTitles, t \in ClockReads :
        /\ Called("add_list", "list")
        /\ now' = t
        /\ data' = [task_lists |-> Append(data.task_lists,
                                          ListRec(TempListId(t), list_name)),
                    tasks |-> SetItem(data.tasks, TempListId(t), <<>>)]
        /\ dirty' = TRUE

\* index of the first list with this id, 0 when there is none
ListIndex(d, list_id) ==
    IF \E i \in 1..Len(d.task_lists) : d.task_lists[i].id = list_id
    THEN CHOOSE i \in 1..Len(d.task_lists) :
            /\ d.task_lists[i].id = list_id
            /\ \A j \in 1..(i-1) : d.task_lists[j].id # list_id
    ELSE 0

delete_list ==
    \E list_id \in ListArgs :
        LET i == ListIndex(data, list_id) IN
        /\ UNCHANGED now
        /\ IF i = 0
           THEN Called("delete_list", "False") /\ UNCHANGED <<data, dirty>>
           ELSE /\ Called("delete_list", "True")
                /\ data' = [data EXCEPT !.task_lists[i].deleted = TRUE]
                /\ dirty' = TRUE

\* rename_list without "self.dirty = True"
rename_list_NoDirty ==
    \E list_id \in ListArgs, new_title \in Titles :
        LET i == ListIndex(data, list_id) IN
        /\ UNCHANGED <<now, dirty>>
        /\ IF list_id = NoneId \/ i = 0
           THEN Called("rename_list", "None") /\ UNCHANGED data
           ELSE /\ Called("rename_list", "True")
                /\ data' = [data EXCEPT !.task_lists[i].title = new_title]

rename_list ==
    \E list_id \in ListArgs, new_title \in Titles :
        LET i == ListIndex(data, list_id) IN
        /\ UNCHANGED now
        /\ IF list_id = NoneId \/ i = 0
           THEN Called("rename_list", "None") /\ UNCHANGED <<data, dirty>>
           ELSE /\ Called("rename_list", "True")
                /\ data' = [data EXCEPT !.task_lists[i].title = new_title]
                /\ dirty' = TRUE

(* ------------------------------ sync_to_google ------------------------- *)
\* The sync's working state: s.lists and s.tasks are self.data['task_lists']
\* and self.data['tasks'], s.map is new_list_id_map, s.log the remote calls
\* made so far, s.exc whether an exception is propagating.  `fails` is the
\* set of positions in the call sequence at which the service fails; a call
\* also fails when the record it names does not exist on the service.
Fails(s, fails) == (Len(s.log) + 1) \in fails
LogCall(s, op, list_id, task_id, ok) ==
    [s EXCEPT !.log = Append(@, [op |-> op, list |-> list_id, task |-> task_id,
                                 ok |-> ok])]

\* body of "for i, task_list in enumerate(self.data['task_lists'])"
SyncList(s, i, fails) ==
    LET task_list == s.lists[i] IN
    IF task_list.deleted
    THEN IF ~StartsWithTempList(task_list.id)
         THEN LET ok == ~Fails(s, fails) /\ RemoteHasList(s.remote, task_list.id) IN
              [LogCall(s, "tasklists.delete", task_list.id, NoneId, ok)
                 EXCEPT !.remote = IF ok THEN RemoteDeleteList(@, task_list.id) ELSE @]
         ELSE s
    ELSE IF StartsWithTempList(task_list.id)
    THEN IF Fails(s, fails)
         THEN [LogCall(s, "tasklists.insert", task_list.id, NoneId, FALSE)
                 EXCEPT !.exc = TRUE]
         ELSE LET new == RemoteInsertList(s.remote, task_list.title) IN
              [LogCall(s, "tasklists.insert", task_list.id, NoneId, TRUE)
                 EXCEPT !.remote = new.remote,
                        !.lists[i] = new.result,
                        !.map = SetItem(@, task_list.id, new.result.id)]
    ELSE s

RECURSIVE SyncLists(_, _, _)
SyncLists(s, i, fails) ==
    IF s.exc \/ i > Len(s.lists) THEN s
    ELSE SyncLists(SyncList(s, i, fails), i + 1, fails)

\* "for old_id, new_id in new_list_id_map.items(): if old_id in tasks:
\*  tasks[new_id] = tasks.pop(old_id)"
RECURSIVE MigrateBuckets(_, _, _)
MigrateBuckets(tasks, map, j) ==
    IF j > Len(map) THEN tasks
    ELSE MigrateBuckets(
            IF HasKey(tasks, map[j].key)
            THEN SetItem(Pop(tasks, map[j].key), map[j].val, GetOr(tasks, map[j].key))
            ELSE tasks,
            map, j + 1)

\* the comparison with the notes left out
Differs_NoNotes(google_task, task) ==
    \/ google_task.title # task.title
    \/ google_task.status # task.status
    \/ google_task.due # task.due

\* "google_task.get('title') != task.get('title') or ... 'status' ... 'due'
\*  ... 'notes'"
Differs(google_task, task) ==
    \/ google_task.title # task.title
    \/ google_task.status # task.status
    \/ google_task.due # task.due
    \/ google_task.notes # task.notes

\* body of "for i, task in enumerate(tasks)" for bucket b
SyncTask(s, b, i, fails) ==
    LET list_id == s.tasks[b].key
        task == s.tasks[b].val[i]
    IN
    IF task.deleted
    THEN IF ~StartsWithTemp(task.id)
         THEN LET ok == ~Fails(s, fails) /\ RemoteHasTask(s.remote, list_id, task.id) IN
              [LogCall(s, "tasks.delete", list_id, task.id, ok)
                 EXCEPT !.remote = IF ok THEN RemoteDeleteTask(@, list_id, task.id) ELSE @]
         ELSE s
    ELSE IF StartsWithTemp(task.id)
    THEN IF Fails(s, fails) \/ ~RemoteHasList(s.remote, list_id)
         THEN [LogCall(s, "tasks.insert", list_id, task.id, FALSE) EXCEPT !.exc = TRUE]
         ELSE LET new == RemoteInsertTask(s.remote, list_id, task.title, task.due,
                                          task.notes) IN
              [LogCall(s, "tasks.insert", list_id, task.id, TRUE)
                 EXCEPT !.remote = new.remote,
                        !.tasks[b].val[i] = new.result]
    ELSE IF Fails(s, fails) \/ ~RemoteHasTask(s.remote, list_id, task.id)
    THEN LogCall(s, "tasks.get", list_id, task.id, FALSE)
    ELSE LET google_task == RemoteTask(s.remote, list_id, task.id)
             got == LogCall(s, "tasks.get", list_id, task.id, TRUE)
         IN
         IF Differs(google_task, task)
         THEN IF Fails(got, fails)
              THEN LogCall(got, "tasks.update", list_id, task.id, FALSE)
              ELSE LET upd == RemoteUpdateTask(got.remote, list_id, task) IN
                   [LogCall(got, "tasks.update", list_id, task.id, TRUE)
                      EXCEPT !.remote = upd.remote,
                             !.tasks[b].val[i] = upd.result]
         ELSE got

RECURSIVE SyncBucket(_, _, _, _)
SyncBucket(s, b, i, fails) ==
    IF s.exc \/ i > Len(s.tasks[b].val) THEN s
    ELSE SyncBucket(SyncTask(s, b, i, fails), b, i + 1, fails)

\* "for list_id, tasks in self.data['tasks'].items()"
RECURSIVE SyncTasks(_, _, _)
SyncTasks(s, b, fails) ==
    IF s.exc \/ b > Len(s.tasks) THEN s
    ELSE IF StartsWithTempList(s.tasks[b].key)
         THEN SyncTasks(s, b + 1, fails)
         ELSE SyncTasks(SyncBucket(s, b, 1, fails), b + 1, fails)

\* the pass with the bucket migration left out: buckets keep their
\* provisional keys
SyncPass_NoMigration(d, r, fails) ==
    LET s0 == [lists |-> d.task_lists, tasks |-> d.tasks, map |-> <<>>,
               remote |-> r, log |-> <<>>, exc |-> FALSE]
        s1 == SyncLists(s0, 1, fails)
    IN  IF s1.exc THEN s1 ELSE SyncTasks(s1, 1, fails)

\* the pass with the task loop run before the list loop and the migration
SyncPass_TasksFirst(d, r, fails) ==
    LET s0 == [lists |-> d.task_lists, tasks |-> d.tasks, map |-> <<>>,
               remote |-> r, log |-> <<>>, exc |-> FALSE]
        s1 == SyncTasks(s0, 1, fails)
        s2 == IF s1.exc THEN s1 ELSE SyncLists(s1, 1, fails)
    IN  IF s2.exc THEN s2 ELSE [s2 EXCEPT !.tasks = MigrateBuckets(@, s2.map, 1)]

\* the pass with a stopped sync forgetting the records it had adopted: the
\* snapshot is as it was before the pass, the service keeps what was created
SyncPass_LoseOnAbort(d, r, fails) ==
    LET s0 == [lists |-> d.task_lists, tasks |-> d.tasks, map |-> <<>>,
               remote |-> r, log |-> <<>>, exc |-> FALSE]
        s1 == SyncLists(s0, 1, fails)
        s2 == [s1 EXCEPT !.tasks = MigrateBuckets(@, s1.map, 1)]
        s3 == IF s1.exc THEN s1 ELSE SyncTasks(s2, 1, fails)
    IN  IF s3.exc THEN [s3 EXCEPT !.lists = d.task_lists, !.tasks = d.tasks] ELSE s3

\* the whole pass, from "new_list_id_map = {}" to the end of the task loop
SyncPass(d, r, fails) ==
    LET s0 == [lists |-> d.task_lists, tasks |-> d.tasks, map |-> <<>>,
               remote |-> r, log |-> <<>>, exc |-> FALSE]
        s1 == SyncLists(s0, 1, fails)
        s2 == [s1 EXCEPT !.tasks = MigrateBuckets(@, s1.map, 1)]
    IN  IF s1.exc THEN s1 ELSE SyncTasks(s2, 1, fails)

\* no sync makes more remote calls than this: one for a list that is
\* tombstoned or provisional, one for a task that is tombstoned or
\* provisional, two (get, update) for any other task
CallBound(d) ==
    LET ListCalls(l) == IF l.deleted \/ StartsWithTempList(l.id) THEN 1 ELSE 0
        TaskCalls(t) == IF t.deleted \/ StartsWithTemp(t.id) THEN 1 ELSE 2
        SumL[i \in 0..Len(d.task_lists)] ==
            IF i = 0 THEN 0 ELSE SumL[i - 1] + ListCalls(d.task_lists[i])
        SumB[b \in 0..Len(d.tasks)] ==
            IF b = 0 THEN 0
            ELSE SumB[b - 1] +
                 LET ts == d.tasks[b].val
                     Sum[i \in 0..Len(ts)] ==
                         IF i = 0 THEN 0 ELSE Sum[i - 1] + TaskCalls(ts[i])
                 IN  Sum[Len(ts)]
    IN  SumL[Len(d.task_lists)] + SumB[Len(d.tasks)]

FailSets(d) ==
    {f \in SUBSET (1..CallBound(d)) : Cardinality(f) <= MaxFail}

\* a sync that never takes the early return
NothingToSync_Never == FALSE

\* "if not self.dirty: return"
NothingToSync == ~dirty

sync_to_google ==
    /\ steps < MaxSteps
    /\ steps' = steps + 1
    /\ lastOp' = "sync_to_google"
    /\ UNCHANGED <<now, active_list_id>>
    /\ IF NothingToSync
       THEN /\ ret' = "None"
            /\ log' = <<>>
            /\ UNCHANGED <<data, dirty, disk, remote>>
       ELSE \E fails \in FailSets(data) :
              LET s == SyncPass(data, remote, fails) IN
              /\ data' = [task_lists |-> s.lists, tasks |-> s.tasks]
              /\ remote' = s.remote
              /\ log' = s.log
              /\ IF s.exc
                 THEN /\ ret' = "raised"
                      /\ UNCHANGED <<dirty, disk>>
                 ELSE \* self.save_local_data()
                      /\ ret' = "None"
                      /\ disk' = save_data([task_lists |-> s.lists, tasks |-> s.tasks])
                      /\ dirty' = FALSE

(* ----------------------------- specification --------------------------- *)
Next ==
    \/ add_task
    \/ toggle_task_status
    \/ delete_task
    \/ rename_task
    \/ change_date_task
    \/ change_detail_task
    \/ set_active_list
    \/ add_list
    \/ delete_list
    \/ rename_list
    \/ sync_to_google

Spec == Init /\ [][Next]_vars

(* ------------------------ vocabulary of the claims --------------------- *)
CacheMutators ==
    {"add_task", "toggle_task_status", "rename_task", "change_date_task",
     "change_detail_task", "delete_task", "add_list", "rename_list", "delete_list"}
CacheOnly == CacheMutators \cup {"set_active_list"}
Succeeded == {"task", "list", "True"}

\* this step is a call of the named method
StepOf(op) == steps' = steps + 1 /\ lastOp' = op
\* this step is a call of a cache-only method
CacheStep == steps' = steps + 1 /\ lastOp' \in CacheOnly

Range(q) == {q[i] : i \in 1..Len(q)}
Lists(d) == Range(d.task_lists)
Buckets(d) == Range(d.tasks)
AllOk(l) == \A i \in 1..Len(l) : l[i].ok
Creates(l) == {i \in 1..Len(l) : l[i].op \in {"tasklists.insert", "tasks.insert"}}

\* no list and no task of the snapshot carries a provisional identifier
NoProvisional(d) ==
    /\ \A l \in Lists(d) : ~StartsWithTempList(l.id)
    /\ \A b \in Buckets(d) : \A t \in Range(b.val) : ~StartsWithTemp(t.id)
\* every bucket is keyed by the remote identifier of a list of the snapshot
BucketsRemoteKeyed(d) ==
    \A b \in Buckets(d) : ~StartsWithTempList(b.key) /\ b.key \in ListIds(d)
\* every provisional record is as add_list / add_task made it: a live list, and
\* a live task in the bucket of a list; no bucket is keyed by a provisional
\* identifier that no list carries
FreshlyAdded(d) ==
    /\ \A l \in Lists(d) : StartsWithTempList(l.id) => ~l.deleted
    /\ \A b \in Buckets(d) :
         /\ StartsWithTempList(b.key) => b.key \in ListIds(d)
         /\ \A t \in Range(b.val) :
              StartsWithTemp(t.id) => ~t.deleted /\ b.key \in ListIds(d)

(* ------------------------------- claims -------------------------------- *)
\* C1: a sync that starts with every provisional list and task as add_list and
\* add_task made them, and in which every remote call succeeds, ends with no
\* provisional identifier on any list or task, every bucket keyed by the
\* remote identifier of a list, and dirty false.
C1_MigrationClosure ==
    [][(StepOf("sync_to_google") /\ dirty /\ FreshlyAdded(data)
          /\ ret' = "None" /\ AllOk(log'))
        => (NoProvisional(data') /\ BucketsRemoteKeyed(data') /\ ~dirty')]_vars

\* a sync has just created a list and then a task in that list's bucket, every
\* call succeeded, and nothing provisional is left
C1_Witness ==
    /\ lastOp = "sync_to_google" /\ ret = "None" /\ AllOk(log) /\ ~dirty
    /\ \E i, j \in 1..Len(log) :
         /\ i < j
         /\ log[i].op = "tasklists.insert"
         /\ log[j].op = "tasks.insert"
         /\ log[j].list # RemoteId(1)
         /\ log[j].list \in ListIds(data)
    /\ NoProvisional(data) /\ BucketsRemoteKeyed(data)

\* C2: whatever remote calls fail, a sync returns normally, has saved the
\* snapshot and has cleared dirty.
C2_SyncNeverFatal ==
    lastOp = "sync_to_google" => (ret = "None" /\ ~dirty /\ disk = data)

\* C3: a remote call that failed in a sync is issued again, for the same
\* item, by the sync that follows it directly (no cache call in between).
C3_RetryOnNextSync ==
    [][(lastOp = "sync_to_google" /\ StepOf("sync_to_google"))
        => \A i \in 1..Len(log) :
              ~log[i].ok =>
                 \E j \in 1..Len(log') :
                    /\ log'[j].op = log[i].op
                    /\ log'[j].list = log[i].list
                    /\ log'[j].task = log[i].task]_vars

\* C4: right after a cache-only mutating call that took effect, the durable
\* document equals the snapshot and dirty is true.
C4_WriteThrough ==
    (lastOp \in CacheMutators /\ ret \in Succeeded) => (disk = data /\ dirty)

\* C5: dirty is false after construction and after every sync that returns;
\* it is true after every cache-only mutating call that took effect or changed
\* the snapshot; no cache-only call clears it.
C5_DirtyContract ==
    /\ [](lastOp = "__init__" => ~dirty)
    /\ []((lastOp = "sync_to_google" /\ ret = "None") => ~dirty)
    /\ []((lastOp \in CacheMutators /\ ret \in Succeeded) => dirty)
    /\ [][(CacheStep /\ data' # data) => dirty']_vars
    /\ [][(CacheStep /\ dirty) => dirty']_vars

\* a sync has cleared dirty and saved, and a later toggle has set it again
C5_Witness ==
    /\ lastOp = "toggle_task_status" /\ ret = "task" /\ dirty
    /\ disk # InitData

\* C6: when dirty is false, every live list with a remote identifier has the
\* title the service holds for it.
C6_CleanMeansReconciled ==
    ~dirty =>
        \A l \in Lists(data) :
            (~l.deleted /\ ~StartsWithTempList(l.id)) =>
                \E r \in Range(remote.lists) : r.id = l.id /\ r.title = l.title

\* C7: every bucket that holds a task is keyed by the identifier of a list of
\* task_lists.
C7_ReferentialIntegrity ==
    \A b \in Buckets(data) : b.val # <<>> => b.key \in ListIds(data)

\* C8: no two lists share an identifier, and no two tasks of a bucket do.
C8_UniqueIds ==
    /\ \A i, j \in 1..Len(data.task_lists) :
          i # j => data.task_lists[i].id # data.task_lists[j].id
    /\ \A b \in Buckets(data) : \A i, j \in 1..Len(b.val) :
          i # j => b.val[i].id # b.val[j].id

\* C9: a cache-only call keeps every list at its place in task_lists and every
\* task at its place in its bucket; delete_task and delete_list change nothing
\* but the deleted flag of one record; a tombstoned record is still in the
\* snapshot, tombstoned, after any later call.
C9_Tombstones ==
    [][/\ CacheStep =>
            /\ \A i \in 1..Len(data.task_lists) :
                  /\ i <= Len(data'.task_lists)
                  /\ data'.task_lists[i].id = data.task_lists[i].id
            /\ \A b \in Buckets(data) : \A i \in 1..Len(b.val) :
                  /\ i <= Len(GetOr(data'.tasks, b.key))
                  /\ GetOr(data'.tasks, b.key)[i].id = b.val[i].id
       /\ (StepOf("delete_task") /\ ret' = "True") =>
            \E b \in 1..Len(data.tasks) : \E i \in 1..Len(data.tasks[b].val) :
                data' = [data EXCEPT !.tasks[b].val[i].deleted = TRUE]
       /\ (StepOf("delete_list") /\ ret' = "True") =>
            \E i \in 1..Len(data.task_lists) :
                data' = [data EXCEPT !.task_lists[i].deleted = TRUE]
       /\ \A l \in Lists(data) :
             l.deleted => \E m \in Lists(data') : m.id = l.id /\ m.deleted
       /\ \A b \in Buckets(data) : \A t \in Range(b.val) :
             t.deleted => \E c \in Buckets(data') : \E u \in Range(c.val) :
                             u.id = t.id /\ u.deleted
      ]_vars

\* C10: of two syncs in direct succession, the second leaves the snapshot as
\* the first left it and issues no remote create.
C10_IdempotentSync ==
    [][(lastOp = "sync_to_google" /\ StepOf("sync_to_google"))
        => (data' = data /\ Creates(log') = {})]_vars

\* C11: a sync called while dirty is false issues no remote call, leaves the
\* durable document, the service, the snapshot and the active list as they
\* were, returns, and leaves dirty false.
C11_CleanSyncIsNoOp ==
    [][(StepOf("sync_to_google") /\ ~dirty)
        => (/\ log' = <<>>
            /\ ret' = "None"
            /\ UNCHANGED <<disk, remote, data, active_list_id, dirty>>)]_vars

\* the very first call is a sync: dirty was false when it was called
C11_Witness ==
    /\ steps = 1 /\ lastOp = "sync_to_google" /\ ret = "None"
    /\ ~dirty /\ log = <<>> /\ data = InitData /\ disk = InitData

\* C12: a change_date_task that does not hand back the task (unparsable date,
\* or no such task) returns None, it does not raise, and leaves the snapshot
\* and dirty as they were.
C12_BadDateReturnsNone ==
    [][(StepOf("change_date_task") /\ ret' # "task")
        => (ret' = "None" /\ UNCHANGED <<data, dirty>>)]_vars

\* C13: a toggle that finds its task changes that task's status to the other
\* value (so that a second toggle gives the first value back) and changes no
\* other field and no other record.
C13_ToggleInvolution ==
    [][(StepOf("toggle_task_status") /\ ret' = "task")
        => \E b \in 1..Len(data.tasks) : \E i \in 1..Len(data.tasks[b].val) :
              LET old == data.tasks[b].val[i].status
                  new == IF old = "needsAction" THEN "completed" ELSE "needsAction"
              IN  /\ old \in {"needsAction", "completed"}
                  /\ data' = [data EXCEPT !.tasks[b].val[i].status = new]
                  /\ toggled(toggled(old)) = old]_vars

\* two calls were made, the second a toggle that found its task, and the
\* snapshot is the initial one again: the first was a toggle of the same task
C13_Witness ==
    /\ steps = 2 /\ lastOp = "toggle_task_status" /\ ret = "task"
    /\ data = InitData /\ dirty

ListLevel == {"tasklists.delete", "tasklists.insert"}
TaskLevel == {"tasks.delete", "tasks.insert", "tasks.get", "tasks.update"}
\* the identifier carries a reserved provisional prefix
Provisional(id) == id.pre \in {"temp_", "temp_list_"}

\* C14: in the calls of one sync every list-level call comes before every
\* task-level call, and every task-level call names a bucket key as it is
\* after the re-keying: a remote list identifier that keys a bucket.
C14_ListsBeforeTasks ==
    lastOp = "sync_to_google" =>
        /\ \A i, j \in 1..Len(log) :
              (log[i].op \in TaskLevel /\ log[j].op \in ListLevel) => j < i
        /\ \A i \in 1..Len(log) :
              log[i].op \in TaskLevel =>
                 (~Provisional(log[i].list) /\ HasKey(data.tasks, log[i].list))

\* a sync created a list and afterwards issued a task-level call in the
\* bucket that the new list's remote identifier now keys
C14_Witness ==
    /\ lastOp = "sync_to_google"
    /\ \E i, j \in 1..Len(log) :
         /\ i < j
         /\ log[i].op = "tasklists.insert" /\ log[i].ok
         /\ log[j].op \in TaskLevel
         /\ log[j].list # RemoteId(1)
         /\ \E l \in Lists(data) : l.id = log[j].list /\ ~l.deleted

\* C15: a sync issues no task-level call for a task in the bucket of a
\* tombstoned list.
C15_TombstonedListIsMoot ==
    lastOp = "sync_to_google" =>
        \A i \in 1..Len(log) :
            log[i].op \in TaskLevel =>
                ~\E l \in Lists(data) : l.deleted /\ l.id = log[i].list

\* this step is a sync that found the snapshot dirty and so ran its pass
SyncRan == StepOf("sync_to_google") /\ dirty
\* the bucket of the snapshot with this key
BucketOf(d, key) == CHOOSE b \in Buckets(d) : b.key = key
\* the two records differ in title, status, due or notes
FieldsDiffer(x, y) ==
    \/ x.title # y.title
    \/ x.status # y.status
    \/ x.due # y.due
    \/ x.notes # y.notes

\* C16: when a sync has ended with a bucket still keyed by a provisional list
\* identifier that no tombstoned list carries, the next sync, if it runs with
\* every remote call succeeding, leaves no bucket under that key.
C16_ProvisionalBucketsRevisited ==
    [][(lastOp = "sync_to_google" /\ SyncRan /\ ret' = "None" /\ AllOk(log'))
        => \A b \in Buckets(data) :
              (/\ Provisional(b.key)
               /\ ~\E l \in Lists(data) : l.deleted /\ l.id = b.key)
              => ~HasKey(data'.tasks, b.key)]_vars

\* C17: after a sync in which every remote call succeeded, every task that was
\* live in a remote-keyed bucket has, in the snapshot and on the service, the
\* title, status, due and notes it had locally before the sync.
C17_LastLocalWriteWins ==
    [][(SyncRan /\ ret' = "None" /\ AllOk(log'))
        => \A b \in Buckets(data) : \A i \in 1..Len(b.val) :
              (~Provisional(b.key) /\ ~b.val[i].deleted)
              => /\ HasKey(data'.tasks, b.key)
                 /\ i <= Len(BucketOf(data', b.key).val)
                 /\ LET t == BucketOf(data', b.key).val[i] IN
                    /\ ~FieldsDiffer(t, b.val[i])
                    /\ RemoteHasTask(remote', b.key, t.id)
                    /\ ~FieldsDiffer(RemoteTask(remote', b.key, t.id), b.val[i])]_vars

\* C18: for a live task with a remote identifier in a remote-keyed bucket, a
\* sync whose fetch of it succeeded issues an update exactly when the fetched
\* record differs from the local one in title, status, due or notes; and unless
\* an update of it succeeded, the local record is after the sync what it was.
C18_UpdateExactlyWhenDifferent ==
    [][SyncRan
        => \A b \in Buckets(data) : \A i \in 1..Len(b.val) :
              LET t == b.val[i]
                  calls(op) == {j \in 1..Len(log') : /\ log'[j].op = op
                                                     /\ log'[j].list = b.key
                                                     /\ log'[j].task = t.id}
              IN  (~Provisional(b.key) /\ ~Provisional(t.id) /\ ~t.deleted)
                  => /\ (\E j \in calls("tasks.get") : log'[j].ok)
                        => /\ RemoteHasTask(remote, b.key, t.id)
                           /\ (calls("tasks.update") # {}
                                 <=> FieldsDiffer(RemoteTask(remote, b.key, t.id), t))
                     /\ (\A j \in calls("tasks.get") : ~log'[j].ok)
                        => calls("tasks.update") = {}
                     /\ (~\E j \in calls("tasks.update") : log'[j].ok)
                        => /\ HasKey(data'.tasks, b.key)
                           /\ BucketOf(data', b.key).val[i] = t]_vars

\* a sync fetched the task whose notes had been changed locally, found it
\* different from the remote record and updated it
C18_Witness ==
    /\ lastOp = "sync_to_google"
    /\ \E i, j \in 1..Len(log) :
         /\ log[i].op = "tasks.get" /\ log[i].ok
         /\ log[j].op = "tasks.update" /\ log[j].ok
         /\ log[i].task = log[j].task
    /\ \E b \in Buckets(data) : \E t \in Range(b.val) :
         t.id = RemoteId(2) /\ t.notes = "n"

\* the live lists and the live tasks of the snapshot that carry a provisional
\* identifier, by position
LiveProvisionalLists(d) ==
    {i \in 1..Len(d.task_lists) :
        Provisional(d.task_lists[i].id) /\ ~d.task_lists[i].deleted}
LiveProvisionalTasks(d) ==
    UNION {{<<b, i>> : i \in {k \in 1..Len(d.tasks[b].val) :
                                   /\ Provisional(d.tasks[b].val[k].id)
                                   /\ ~d.tasks[b].val[k].deleted}} :
           b \in 1..Len(d.tasks)}
CallsOf(l, op) == {j \in 1..Len(l) : l[j].op = op}

\* C19: in every sync a list delete names a remote list identifier, every
\* task-level call names a remote list identifier and, for delete, get and
\* update, a remote task identifier; creates are issued for live provisional
\* records only, at most one each, so tombstoned provisional records cause no
\* call.
C19_NoProvisionalIdOnTheWire ==
    [][SyncRan
        => /\ \A j \in 1..Len(log') :
                /\ log'[j].op = "tasklists.delete" => ~Provisional(log'[j].list)
                /\ log'[j].op \in TaskLevel => ~Provisional(log'[j].list)
                /\ log'[j].op \in {"tasks.delete", "tasks.get", "tasks.update"}
                      => ~Provisional(log'[j].task)
                /\ log'[j].op = "tasklists.insert"
                      => \E i \in LiveProvisionalLists(data) :
                            data.task_lists[i].id = log'[j].list
                /\ log'[j].op = "tasks.insert"
                      => \E p \in LiveProvisionalTasks(data) :
                            data.tasks[p[1]].val[p[2]].id = log'[j].task
           /\ Cardinality(CallsOf(log', "tasklists.insert"))
                 <= Cardinality(LiveProvisionalLists(data))
           /\ Cardinality(CallsOf(log', "tasks.insert"))
                 <= Cardinality(LiveProvisionalTasks(data))]_vars

\* a sync ran over a snapshot holding a tombstoned provisional list and issued
\* remote calls, none of them for that list
C19_Witness ==
    /\ lastOp = "sync_to_google" /\ log # <<>>
    /\ \E l \in Lists(data) : Provisional(l.id) /\ l.deleted
    /\ \A j \in 1..Len(log) : log[j].op \notin ListLevel

\* the records of the snapshot, lists by position and tasks by bucket and
\* position, that carry this identifier
Carriers(d, id) ==
    {<<"list", i, 0>> : i \in {k \in 1..Len(d.task_lists) : d.task_lists[k].id = id}}
    \cup UNION {{<<"task", b, i>> : i \in {k \in 1..Len(d.tasks[b].val) :
                                              d.tasks[b].val[k].id = id}} :
                b \in 1..Len(d.tasks)}
\* the identifiers the service has issued for creates since start
Issued == {RemoteId(k) : k \in InitRemote.next .. (remote.next - 1)}

\* C20: every identifier the service issued for a create is carried by exactly
\* one record of the snapshot: each successful create was adopted in place by
\* the record it was issued for, which is then no longer provisional, so no
\* record is created twice, stopped syncs included.
C20_AtMostOnceCreate ==
    \A id \in Issued : Cardinality(Carriers(data, id)) = 1

\* a sync created a record remotely and then stopped at a failed create
C20_Witness ==
    /\ lastOp = "sync_to_google" /\ ret = "raised"
    /\ \E j \in 1..Len(log) : log[j].op \in {"tasklists.insert", "tasks.insert"} /\ log[j].ok
    /\ Issued # {}

====
